---- MODULE Spec2Model ----
(***************************************************************************)
(* Model of kommo-middleware (src/app.py): the Kommo webhook handler, the  *)
(* reactivation cron handler and the ERIKA_ACTION output parser.           *)
(*                                                                         *)
(* Text is modelled as a sequence of tokens.  A token is an atomic piece   *)
(* of text; the two sentinels are token sequences that share their first   *)
(* token, as the real sentinels share "###".                               *)
(* Python values (JSON) are tagged records, so that values of different    *)
(* Python types can be told apart and compared.                            *)
(***************************************************************************)
EXTENDS Integers, Sequences, FiniteSets, TLC

VARIABLES
    cfg,        \* environment read at start-up (module globals and os.getenv)
    req,        \* the inbound HTTP request and the answers of the remote services
    pc,         \* position of the handler
    loc,        \* local variables of the handler
    calls,      \* outbound requests issued so far, in order
    response,   \* the HTTP answer of the handler
    ai_full,    \* raw assistant text handed to split_erika_output
    split       \* result of split_erika_output

vars == <<cfg, req, pc, loc, calls, response, ai_full, split>>

----------------------------------------------------------------------------
(* Bounds of the model *)

MaxChunks == 5      \* pieces of text in an assistant output (SpecSplit)
MaxLeads == 2       \* leads returned by the CRM listing (cron_reactivar)

----------------------------------------------------------------------------
(* Python values *)

None == [t |-> "null"]
JStr(s) == [t |-> "str", s |-> s]
JInt(n) == [t |-> "int", n |-> n]
JBool(b) == [t |-> "bool", b |-> b]
JList(l) == [t |-> "list", l |-> l]

\* a dict built from a sequence of <<key, value>> pairs: d holds the values
\* (a repeated key keeps its last value), o the keys in insertion order
MkDict(ps) ==
    LET idx == DOMAIN ps
        keys == {ps[i][1] : i \in idx}
        last(k) == CHOOSE i \in idx :
                      ps[i][1] = k /\ \A j \in idx : ps[j][1] = k => j <= i
        firsts == {i \in idx : \A j \in idx : ps[j][1] = ps[i][1] => i <= j}
        nth(n) == CHOOSE i \in firsts : Cardinality({j \in firsts : j < i}) = n - 1
    IN  [t |-> "dict",
         d |-> [k \in keys |-> ps[last(k)][2]],
         o |-> [n \in 1..Cardinality(firsts) |-> ps[nth(n)][1]]]

EmptyDict == MkDict(<<>>)

\* d[k] = v
SetItem(v, k, x) ==
    IF k \in DOMAIN v.d
    THEN [v EXCEPT !.d = [v.d EXCEPT ![k] = x]]
    ELSE [t |-> "dict",
          d |-> [j \in DOMAIN v.d \cup {k} |-> IF j = k THEN x ELSE v.d[j]],
          o |-> Append(v.o, k)]

IsDict(v) == v.t = "dict"
IsStr(v) == v.t = "str"

\* Python truth value of a value
Truthy(v) ==
    CASE v.t = "null" -> FALSE
      [] v.t = "str" -> v.s /= <<>>
      [] v.t = "int" -> v.n /= 0
      [] v.t = "bool" -> v.b
      [] v.t = "dict" -> DOMAIN v.d /= {}
      [] v.t = "list" -> v.l /= <<>>

\* dict.get(key) on a value known to be a dict
Get(v, k) == IF k \in DOMAIN v.d THEN v.d[k] ELSE None

\* a or b
Or(a, b) == IF Truthy(a) THEN a ELSE b

----------------------------------------------------------------------------
(* Text *)

WS == {" ", "\n"}

ACTION_START == <<"###", " ERIKA_ACTION">>
ACTION_END == <<"###", " END_ERIKA_ACTION">>

\* str.find: the first occurrence instead of the last
find_first(s, sub) ==
    LET hits == {i \in 1..(Len(s) - Len(sub) + 1) :
                    SubSeq(s, i, i + Len(sub) - 1) = sub}
    IN  IF hits = {} THEN 0
        ELSE CHOOSE i \in hits : \A j \in hits : i <= j

\* str.rfind: start (1-based) of the last occurrence of sub in s, 0 if none
rfind(s, sub) ==
    LET hits == {i \in 1..(Len(s) - Len(sub) + 1) :
                    SubSeq(s, i, i + Len(sub) - 1) = sub}
    IN  IF hits = {} THEN 0
        ELSE CHOOSE i \in hits : \A j \in hits : j <= i

\* str.rstrip()
rstrip(s) ==
    LET keep == {i \in 1..Len(s) : s[i] \notin WS}
    IN  IF keep = {} THEN <<>>
        ELSE SubSeq(s, 1, CHOOSE i \in keep : \A j \in keep : j <= i)

\* str.lstrip()
lstrip(s) ==
    LET keep == {i \in 1..Len(s) : s[i] \notin WS}
    IN  IF keep = {} THEN <<>>
        ELSE SubSeq(s, CHOOSE i \in keep : \A j \in keep : i <= j, Len(s))

\* str.strip()
strip(s) == lstrip(rstrip(s))

----------------------------------------------------------------------------
(* json.loads on the action block.  The block is a sequence of tokens: the  *)
(* braces, the comma, scalars, and member tokens that each stand for one   *)
(* "key": value pair.  Whitespace between tokens is insignificant.         *)

PairKV ==
    [ p \in {"sn:greeted", "sn:", "st:Reengajar", "st:Leads Recebidos",
             "st:reengajar", "st:Outra", "sr:true", "sr:false"} |->
        CASE p = "sn:greeted" -> <<"summary_note", JStr(<<"greeted">>)>>
          [] p = "sn:" -> <<"summary_note", JStr(<<>>)>>
          [] p = "st:Reengajar" -> <<"kommo_suggested_stage", JStr(<<"Reengajar">>)>>
          [] p = "st:Leads Recebidos" -> <<"kommo_suggested_stage", JStr(<<"Leads Recebidos">>)>>
          [] p = "st:reengajar" -> <<"kommo_suggested_stage", JStr(<<"reengajar">>)>>
          [] p = "st:Outra" -> <<"kommo_suggested_stage", JStr(<<"Outra">>)>>
          [] p = "sr:true" -> <<"should_reactivate", JBool(TRUE)>>
          [] p = "sr:false" -> <<"should_reactivate", JBool(FALSE)>> ]

PairToks == DOMAIN PairKV

NoWs(s) == SelectSeq(s, LAMBDA c : c \notin WS)

\* members of an object: empty, or member tokens separated by commas
IsMembers(t) ==
    \/ t = <<>>
    \/ /\ Len(t) % 2 = 1
       /\ \A i \in 1..Len(t) :
            IF i % 2 = 1 THEN t[i] \in PairToks ELSE t[i] = ","

\* the object of a member list
MembersDict(t) ==
    MkDict([n \in 1..((Len(t) + 1) \div 2) |-> PairKV[t[2 * n - 1]]])

\* [ok |-> decoded without JSONDecodeError, val |-> the decoded value]
json_loads(s) ==
    LET t == NoWs(s)
    IN  IF t = <<"null">> THEN [ok |-> TRUE, val |-> None]
        ELSE IF t = <<"\"ok\"">> THEN [ok |-> TRUE, val |-> JStr(<<"ok">>)]
        ELSE IF /\ Len(t) >= 2
                /\ t[1] = "{"
                /\ t[Len(t)] = "}"
                /\ IsMembers(SubSeq(t, 2, Len(t) - 1))
             THEN [ok |-> TRUE, val |-> MembersDict(SubSeq(t, 2, Len(t) - 1))]
        ELSE [ok |-> FALSE, val |-> None]

----------------------------------------------------------------------------
(* split_erika_output *)

\* the action block: the text after the last start sentinel, up to the last
\* end sentinel found in it when there is one, stripped
action_raw(full_text) ==
    LET start == rfind(full_text, ACTION_START)
        after == SubSeq(full_text, start + Len(ACTION_START), Len(full_text))
        end == rfind(after, ACTION_END)
    IN  strip(IF end /= 0 THEN SubSeq(after, 1, end - 1) ELSE after)

\* the parser without its JSONDecodeError handler: the undecoded block leaks
\* out as the action
split_keep_raw(full_text) ==
    IF full_text = <<>> THEN [visible |-> <<>>, action |-> None]
    ELSE LET start == rfind(full_text, ACTION_START)
         IN  IF start = 0
             THEN [visible |-> strip(full_text), action |-> None]
             ELSE [visible |-> rstrip(SubSeq(full_text, 1, start - 1)),
                   action |-> IF json_loads(action_raw(full_text)).ok
                              THEN json_loads(action_raw(full_text)).val
                              ELSE JStr(action_raw(full_text))]

split_erika_output(full_text) ==
    IF full_text = <<>> THEN [visible |-> <<>>, action |-> None]
    ELSE LET start == rfind(full_text, ACTION_START)
         IN  IF start = 0
             THEN [visible |-> strip(full_text), action |-> None]
             ELSE LET visible_text == rstrip(SubSeq(full_text, 1, start - 1))
                      raw == action_raw(full_text)
                  IN  IF raw = <<>>
                      THEN [visible |-> visible_text, action |-> None]
                      ELSE [visible |-> visible_text,
                            action |-> IF json_loads(raw).ok
                                       THEN json_loads(raw).val
                                       ELSE None]

----------------------------------------------------------------------------
(* Evaluation of Python expressions that may raise *)

Raise == [exc |-> TRUE, val |-> None]
Ret(v) == [exc |-> FALSE, val |-> v]

\* str(v)
PyStr(v) == IF v.t = "str" THEN v.s ELSE <<"<repr>">>

\* the numbers that numeric text stands for
Numeral == [s \in {"0", "7", "42", "142"} |->
              CASE s = "0" -> 0 [] s = "7" -> 7 [] s = "42" -> 42 [] s = "142" -> 142]

\* int(v): raises ValueError or TypeError on what is not a number
py_int(v) ==
    CASE v.t = "int" -> Ret(JInt(v.n))
      [] v.t = "bool" -> Ret(JInt(IF v.b THEN 1 ELSE 0))
      [] v.t = "str" -> IF Len(v.s) = 1 /\ v.s[1] \in DOMAIN Numeral
                        THEN Ret(JInt(Numeral[v.s[1]]))
                        ELSE Raise
      [] OTHER -> Raise

----------------------------------------------------------------------------
(* Kommo helpers.  Each returns the requests it issued and whether it      *)
(* raised; ok is the answer of the remote service to the request, if one   *)
(* is issued (False: the request or raise_for_status raised).              *)

Call(op, lead, arg, ok) == [op |-> op, lead |-> lead, arg |-> arg, ok |-> ok]

Done(cs) == [calls |-> cs, raised |-> FALSE]
Failed(cs) == [calls |-> cs, raised |-> TRUE]

KommoConfigured(c) == c.KOMMO_DOMAIN /= <<>> /\ c.KOMMO_TOKEN /= <<>>

add_kommo_note(c, lead_id, text, ok) ==
    IF ~Truthy(lead_id) \/ ~KommoConfigured(c) \/ text = <<>>
    THEN Done(<<>>)
    ELSE IF py_int(lead_id).exc THEN Failed(<<>>)
    ELSE IF ok THEN Done(<<Call("note", py_int(lead_id).val, text, TRUE)>>)
    ELSE Failed(<<Call("note", py_int(lead_id).val, text, FALSE)>>)

STAGE_ENV_MAP ==
    [ n \in {"Leads Recebidos", "Contato em Andamento", "Serviço Vendido",
             "Agendamento Pendente", "Agendamentos Confirmados",
             "Cliente Presente", "Cliente Ausente", "Reengajar",
             "Solicitar FeedBack", "Solicitar Avaliação Google",
             "Avaliação 5 Estrelas", "Cliente Insatisfeito",
             "Vagas de Emprego", "Solicitar Atendimento Humano"} |->
        CASE n = "Leads Recebidos" -> "KOMMO_STATUS_LEADS_RECEBIDOS"
          [] n = "Contato em Andamento" -> "KOMMO_STATUS_CONTATO_EM_ANDAMENTO"
          [] n = "Serviço Vendido" -> "KOMMO_STATUS_SERVICO_VENDIDO"
          [] n = "Agendamento Pendente" -> "KOMMO_STATUS_AGENDAMENTO_PENDENTE"
          [] n = "Agendamentos Confirmados" -> "KOMMO_STATUS_AGENDAMENTOS_CONFIRMADOS"
          [] n = "Cliente Presente" -> "KOMMO_STATUS_CLIENTE_PRESENTE"
          [] n = "Cliente Ausente" -> "KOMMO_STATUS_CLIENTE_AUSENTE"
          [] n = "Reengajar" -> "KOMMO_STATUS_REENGAJAR"
          [] n = "Solicitar FeedBack" -> "KOMMO_STATUS_SOLICITAR_FEEDBACK"
          [] n = "Solicitar Avaliação Google" -> "KOMMO_STATUS_SOLICITAR_AVALIACAO_GOOGLE"
          [] n = "Avaliação 5 Estrelas" -> "KOMMO_STATUS_AVALIACAO_5_ESTRELAS"
          [] n = "Cliente Insatisfeito" -> "KOMMO_STATUS_CLIENTE_INSATISFEITO"
          [] n = "Vagas de Emprego" -> "KOMMO_STATUS_VAGAS_DE_EMPREGO"
          [] n = "Solicitar Atendimento Humano" -> "KOMMO_STATUS_SOLICITAR_ATENDIMENTO_HUMANO" ]

\* os.getenv(name) for the status variables: the empty text when unset
getenv(c, name) == IF name \in DOMAIN c.env THEN c.env[name] ELSE <<>>

\* the stage update with a lookup that ignores the case of the first letter
update_lead_stage_nocase(c, lead_id, stage_name, ok) ==
    LET name == IF stage_name = JStr(<<"reengajar">>) THEN JStr(<<"Reengajar">>)
                ELSE stage_name
    IN  IF ~Truthy(lead_id) \/ ~Truthy(name) THEN Done(<<>>)
        ELSE IF name.t \in {"dict", "list"} THEN Failed(<<>>)
        ELSE IF ~(name.t = "str" /\ Len(name.s) = 1
                  /\ name.s[1] \in DOMAIN STAGE_ENV_MAP)
             THEN Done(<<>>)
        ELSE LET status_id == getenv(c, STAGE_ENV_MAP[name.s[1]])
             IN  IF status_id = <<>> THEN Done(<<>>)
                 ELSE IF ~KommoConfigured(c) THEN Done(<<>>)
                 ELSE IF py_int(lead_id).exc \/ py_int(JStr(status_id)).exc
                      THEN Failed(<<>>)
                 ELSE IF ok
                      THEN Done(<<Call("stage", py_int(lead_id).val, status_id, TRUE)>>)
                      ELSE Failed(<<Call("stage", py_int(lead_id).val, status_id, FALSE)>>)

\* lines 134-159
update_lead_stage(c, lead_id, stage_name, ok) ==
    IF ~Truthy(lead_id) \/ ~Truthy(stage_name) THEN Done(<<>>)
    ELSE IF stage_name.t \in {"dict", "list"} THEN Failed(<<>>)
    ELSE IF ~(stage_name.t = "str" /\ Len(stage_name.s) = 1
              /\ stage_name.s[1] \in DOMAIN STAGE_ENV_MAP)
         THEN Done(<<>>)
    ELSE LET status_id == getenv(c, STAGE_ENV_MAP[stage_name.s[1]])
         IN  IF status_id = <<>> THEN Done(<<>>)
             ELSE IF ~KommoConfigured(c) THEN Done(<<>>)
             ELSE IF py_int(lead_id).exc \/ py_int(JStr(status_id)).exc
                  THEN Failed(<<>>)
             ELSE IF ok
                  THEN Done(<<Call("stage", py_int(lead_id).val, status_id, TRUE)>>)
                  ELSE Failed(<<Call("stage", py_int(lead_id).val, status_id, FALSE)>>)

----------------------------------------------------------------------------
(* parse_kommo_form_urlencoded.  qs is the result of parse_qs: a sequence   *)
(* of <<key, text>> pairs in the order of the body, one per key, with the  *)
(* first value of the key (parse_qs drops blank values).                   *)

\* the message[...] keys and what stands between their outer brackets
MessageInner ==
    [ k \in {"message[text]", "message[body]", "message[message]",
             "message[add][0][text]", "message[add][0][message]",
             "message[add][0][entity_id]", "message[add][0][element_id]",
             "message[add][0][type]"} |->
        CASE k = "message[text]" -> "text"
          [] k = "message[body]" -> "body"
          [] k = "message[message]" -> "message"
          [] k = "message[add][0][text]" -> "add][0][text"
          [] k = "message[add][0][message]" -> "add][0][message"
          [] k = "message[add][0][entity_id]" -> "add][0][entity_id"
          [] k = "message[add][0][element_id]" -> "add][0][element_id"
          [] k = "message[add][0][type]" -> "add][0][type" ]

\* "text" in k or "message" in k or "body" in k
HasTextToken(k) ==
    k \in {"text", "body", "message", "add][0][text", "add][0][message"}

\* "entity_id" in k or "element_id" in k
HasIdToken(k) ==
    k \in {"add][0][entity_id", "add][0][element_id", "entity_id", "element_id"}

first(qs, key) ==
    LET hits == {i \in DOMAIN qs : qs[i][1] = key}
    IN  IF hits = {} THEN None ELSE JStr(qs[CHOOSE i \in hits : TRUE][2])

safe_int(v) == IF py_int(v).exc THEN None ELSE py_int(v).val

\* the value under the first key of dict m, in its order, that names a text
FirstTextValue(m) ==
    LET hits == {i \in DOMAIN m.o : HasTextToken(m.o[i])}
    IN  IF hits = {} THEN None
        ELSE m.d[m.o[CHOOSE i \in hits : \A j \in hits : i <= j]]

parse_kommo_form_urlencoded(qs) ==
    LET account == MkDict(<< <<"subdomain", first(qs, "account[subdomain]")>> >>)
        direct == Or(first(qs, "message[text]"),
                  Or(first(qs, "message[body]"),
                  Or(first(qs, "message[message]"),
                  Or(first(qs, "message[add][0][text]"),
                     first(qs, "message[add][0][message]")))))
        mkeys == SelectSeq(qs, LAMBDA p : p[1] \in DOMAIN MessageInner)
        message0 == MkDict([i \in DOMAIN mkeys |->
                              <<MessageInner[mkeys[i][1]], JStr(mkeys[i][2])>>])
        msg_text == IF ~Truthy(direct) /\ Truthy(message0)
                       /\ FirstTextValue(message0) /= None
                    THEN FirstTextValue(message0)
                    ELSE direct
        message == IF Truthy(msg_text) THEN SetItem(message0, "text", msg_text)
                   ELSE message0
        lead_id == safe_int(Or(first(qs, "lead[id]"),
                            Or(first(qs, "leads[0][id]"),
                            Or(first(qs, "message[add][0][entity_id]"),
                               first(qs, "message[add][0][element_id]")))))
        lead == IF lead_id /= None THEN MkDict(<< <<"id", lead_id>> >>) ELSE EmptyDict
        phone == Or(first(qs, "contact[phones][0][value]"),
                 Or(first(qs, "contact[phones][0][phone]"),
                 Or(first(qs, "contact[phone]"), first(qs, "phone"))))
        contact == IF Truthy(phone)
                   THEN MkDict(<< <<"phones",
                           JList(<<MkDict(<< <<"value", phone>> >>)>>)>> >>)
                   ELSE EmptyDict
        data == MkDict(
                  (IF Truthy(message) THEN << <<"message", message>> >> ELSE <<>>)
                  \o (IF Truthy(lead) THEN << <<"lead", lead>> >> ELSE <<>>)
                  \o (IF Truthy(contact) THEN << <<"contact", contact>> >> ELSE <<>>))
        event == first(qs, "event")
    IN  MkDict(<< <<"account", account>>, <<"data", data>> >>
               \o (IF Truthy(event) THEN << <<"event", event>> >> ELSE <<>>))

----------------------------------------------------------------------------
(* kommo_webhook: decoding, authorization and extraction (lines 415-500)   *)

\* the body as the handler decodes it, by content type.  A body is JSON
\* text (val: its decoded value), form-encoded text (qs) or bytes that are
\* neither; parse_qs finds no pair in what is not form-encoded text.
DecodeJson(body) == IF body.enc = "json" THEN Ret(body.val) ELSE Raise

DecodeForm(body) ==
    Ret(parse_kommo_form_urlencoded(IF body.enc = "form" THEN body.qs ELSE <<>>))

DecodeBody(content_type, body) ==
    IF content_type = "application/json" THEN DecodeJson(body)
    ELSE IF content_type = "application/x-www-form-urlencoded" THEN DecodeForm(body)
    ELSE IF DecodeJson(body).exc THEN DecodeForm(body)
    ELSE DecodeJson(body)

\* the subdomain check that also rejects a payload without a tag
CheckSubdomain_strict(c, payload) ==
    IF c.AUTHORIZED_SUBDOMAIN = <<>> THEN "pass"
    ELSE IF ~IsDict(payload) THEN "raise"
    ELSE LET account == Or(Get(payload, "account"), EmptyDict)
             subdomain == IF IsDict(account)
                          THEN Or(Get(account, "subdomain"), Get(account, "name"))
                          ELSE None
         IN  IF subdomain /= JStr(c.AUTHORIZED_SUBDOMAIN) THEN "reject" ELSE "pass"

\* the subdomain check: "pass", "reject" (HTTPException 401) or "raise"
\* (payload has no .get)
CheckSubdomain(c, payload) ==
    IF c.AUTHORIZED_SUBDOMAIN = <<>> THEN "pass"
    ELSE IF ~IsDict(payload) THEN "raise"
    ELSE LET account == Or(Get(payload, "account"), EmptyDict)
             subdomain == IF IsDict(account)
                          THEN Or(Get(account, "subdomain"), Get(account, "name"))
                          ELSE None
         IN  IF Truthy(subdomain) /\ subdomain /= JStr(c.AUTHORIZED_SUBDOMAIN)
             THEN "reject"
             ELSE "pass"

\* data = payload.get("data") or payload
DataOf(payload) ==
    IF ~IsDict(payload) THEN Raise ELSE Ret(Or(Get(payload, "data"), payload))

\* msg_block = data.get("message") or {}
MsgBlock(data) ==
    IF ~IsDict(data) THEN Raise ELSE Ret(Or(Get(data, "message"), EmptyDict))

\* (data.get("conversation") or {})
Conversation(data) == Or(Get(data, "conversation"), EmptyDict)

\* the message text, probed in the order of lines 453-461; data is a dict
MessageText(data) ==
    LET msg_block == MsgBlock(data).val
    IN  IF ~IsDict(msg_block) THEN Raise
        ELSE IF Truthy(Get(msg_block, "text")) THEN Ret(Get(msg_block, "text"))
        ELSE IF Truthy(Get(msg_block, "body")) THEN Ret(Get(msg_block, "body"))
        ELSE IF Truthy(Get(msg_block, "message")) THEN Ret(Get(msg_block, "message"))
        ELSE IF ~IsDict(Conversation(data)) THEN Raise
        ELSE LET last_message ==
                    IF "last_message" \in DOMAIN Conversation(data).d
                    THEN Conversation(data).d["last_message"]
                    ELSE EmptyDict
             IN  IF ~IsDict(last_message) THEN Raise
                 ELSE IF Truthy(Get(last_message, "text"))
                      THEN Ret(Get(last_message, "text"))
                 ELSE IF ~IsDict(Or(Get(data, "last_message"), EmptyDict)) THEN Raise
                 ELSE IF Truthy(Get(Or(Get(data, "last_message"), EmptyDict), "text"))
                      THEN Ret(Get(Or(Get(data, "last_message"), EmptyDict), "text"))
                 ELSE Ret(Or(Get(data, "text"), JStr(<<>>)))

\* the first value of msg_block, in its order, under a key naming an entity
\* or element id that int() accepts
IdFromMessage(msg_block) ==
    LET hits == {i \in DOMAIN msg_block.o :
                    /\ HasIdToken(msg_block.o[i])
                    /\ ~py_int(msg_block.d[msg_block.o[i]]).exc}
    IN  IF hits = {} THEN None
        ELSE py_int(msg_block.d[msg_block.o[CHOOSE i \in hits :
                                               \A j \in hits : i <= j]]).val

\* the lead id, lines 464-480; data is a dict and msg_block was read
LeadId(data) ==
    LET lead == Or(Get(data, "lead"), EmptyDict)
        msg_block == MsgBlock(data).val
    IN  IF ~IsDict(lead) THEN Raise
        ELSE LET direct ==
                    IF Truthy(Get(lead, "id")) THEN Ret(Get(lead, "id"))
                    ELSE IF Truthy(Get(data, "lead_id")) THEN Ret(Get(data, "lead_id"))
                    ELSE IF ~IsDict(Conversation(data)) THEN Raise
                    ELSE Ret(Get(Conversation(data), "lead_id"))
             IN  IF direct.exc THEN Raise
                 ELSE IF ~Truthy(direct.val) /\ IsDict(msg_block)
                         /\ IdFromMessage(msg_block) /= None
                      THEN Ret(IdFromMessage(msg_block))
                 ELSE direct

\* the phone, lines 483-492 (never raises); data is a dict
Phone(data) ==
    LET contact == Or(Get(data, "contact"), EmptyDict)
        phones == IF IsDict(contact)
                  THEN Or(Get(contact, "phones"), JList(<<>>))
                  ELSE JList(<<>>)
    IN  IF phones.t = "list" /\ phones.l /= <<>>
        THEN IF IsDict(phones.l[1])
             THEN Or(Get(phones.l[1], "value"), Get(phones.l[1], "phone"))
             ELSE IF IsStr(phones.l[1]) THEN phones.l[1]
             ELSE None
        ELSE None

\* what extraction yields for a decoded payload: raised, or the fields
Extract(payload) ==
    IF DataOf(payload).exc THEN [exc |-> TRUE]
    ELSE LET data == DataOf(payload).val
         IN  IF MsgBlock(data).exc THEN [exc |-> TRUE]
             ELSE IF MessageText(data).exc THEN [exc |-> TRUE]
             ELSE IF LeadId(data).exc THEN [exc |-> TRUE]
             ELSE [exc |-> FALSE,
                   message_text |-> MessageText(data).val,
                   lead_id |-> LeadId(data).val,
                   phone |-> Phone(data)]

----------------------------------------------------------------------------
(* kommo_webhook: the handler *)

NoSplit == [visible |-> <<"?">>, action |-> None]
NoCfg == [none |-> TRUE]
NoLoc == [none |-> TRUE]

\* an HTTP answer; code 0: no answer yet
Resp(code, status, detail) ==
    [code |-> code, status |-> status, detail |-> detail, lead_id |-> None,
     ai_response |-> <<>>, erika_action |-> None, payload_keys |-> <<>>,
     processed |-> 0, details |-> <<>>]

NoResponse == Resp(0, "", "")

\* an exception that no handler catches: the framework answers 500
Unhandled == Resp(500, "", "Internal Server Error")

DEFAULT_REPLY == <<"Oi! Sou a Erika, da TecBrilho. Como posso te ajudar hoje?">>
\* the label "Erika <brain emoji>:" and a line break
REPLY_LABEL == <<"Erika (brain):", "\n">>
SUMMARY_LABEL == <<"ERIKA_ACTION: ">>

\* lines 415-500: decode, check the subdomain, extract, ignore empty messages
ReadRequest ==
    /\ pc = "request"
    /\ req.kind = "webhook"
    /\ LET dec == DecodeBody(req.content_type, req.body)
           auth == CheckSubdomain(cfg, dec.val)
           ex == Extract(dec.val)
       IN  IF dec.exc
           THEN /\ response' = Resp(400, "", "Payload inválido ou ausente")
                /\ pc' = "done"
                /\ loc' = loc
           ELSE IF auth = "raise"
           THEN /\ response' = response
                /\ pc' = "crash"
                /\ loc' = loc
           ELSE IF auth = "reject"
           THEN /\ response' = Resp(401, "", "Subdomínio não autorizado")
                /\ pc' = "done"
                /\ loc' = loc
           ELSE IF ex.exc
           THEN /\ response' = response
                /\ pc' = "crash"
                /\ loc' = loc
           ELSE IF strip(PyStr(ex.message_text)) = <<>>
           THEN /\ response' = [Resp(200, "ignored", "sem mensagem")
                                  EXCEPT !.payload_keys = dec.val.o]
                /\ pc' = "done"
                /\ loc' = loc
           ELSE /\ response' = response
                /\ pc' = "call_erika"
                /\ loc' = [message_text |-> ex.message_text,
                           lead_id |-> ex.lead_id,
                           phone |-> ex.phone,
                           visible_text |-> <<>>,
                           action |-> None,
                           reply_text |-> <<>>]
    /\ UNCHANGED <<cfg, req, calls, ai_full, split>>

\* an exception left the handler: the framework answers 500
Crash ==
    /\ pc = "crash"
    /\ response' = Unhandled
    /\ pc' = "done"
    /\ UNCHANGED <<cfg, req, loc, calls, ai_full, split>>

\* an action block as the assistant writes it
Block(members) == ACTION_START \o <<"\n", "{">> \o members \o <<"}", "\n">> \o ACTION_END

\* replies of the assistant in the live flow
ErikaTexts ==
    { <<>>,
      <<"Hello">>,
      <<" ", "\n">>,
      <<"Hello">> \o Block(<<"sn:greeted">>),
      <<"Hello", "\n">> \o Block(<<"sn:greeted", ",", "st:Reengajar">>),
      Block(<<"st:Leads Recebidos">>),
      <<"Hello", " ">> \o ACTION_START \o <<"{">>,
      <<"Hello">> \o ACTION_START \o <<"\"ok\"">> \o ACTION_END,
      <<"Hello">> \o Block(<<"st:reengajar">>),
      <<"Hello">> \o Block(<<"sn:greeted", ",", "st:Outra">>) }

\* replies of the assistant in the reactivation flow
CronTexts ==
    { <<>>,
      <<"Oi", "\n">> \o Block(<<"sr:true", ",", "st:Reengajar", ",", "sn:greeted">>),
      Block(<<"sr:true">>),
      <<"Oi", "\n">> \o Block(<<"sr:false", ",", "st:Reengajar", ",", "sn:greeted">>),
      <<"Oi", " ">> \o ACTION_START \o <<"{">>,
      <<"Oi">> \o ACTION_START \o <<"\"ok\"">> \o ACTION_END,
      <<"Oi", "\n">> \o Block(<<"st:Reengajar", ",", "sn:greeted">>),
      Block(<<"sr:true", ",", "st:Outra">>) }

\* what call_openai_erika can come back with: an exception, or the text of
\* the assistant (empty when the thread holds no assistant message)
ErikaAnswers(c) ==
    {[ok |-> FALSE, text |-> <<>>]}
    \cup (IF c.ERIKA_ASSISTANT_ID = <<>> THEN {}
          ELSE {[ok |-> TRUE, text |-> t] :
                  t \in IF req.kind = "cron" THEN CronTexts ELSE ErikaTexts})

\* an assistant call whose failure is swallowed: the handler goes on with an
\* empty assistant text
CallErika_swallowed ==
    /\ pc = "call_erika"
    /\ \E ans \in ErikaAnswers(cfg) :
         /\ calls' = Append(calls, Call("assistant", loc.lead_id,
                                        PyStr(loc.message_text), ans.ok))
         /\ ai_full' = IF ans.ok THEN ans.text ELSE <<>>
         /\ pc' = "split"
         /\ response' = response
    /\ UNCHANGED <<cfg, req, loc, split>>

\* lines 502-507
CallErika ==
    /\ pc = "call_erika"
    /\ \E ans \in ErikaAnswers(cfg) :
         /\ calls' = Append(calls, Call("assistant", loc.lead_id,
                                        PyStr(loc.message_text), ans.ok))
         /\ IF ans.ok
            THEN /\ ai_full' = ans.text
                 /\ pc' = "split"
                 /\ response' = response
            ELSE /\ ai_full' = ai_full
                 /\ pc' = "done"
                 /\ response' = Resp(500, "", "Erro ao processar resposta da Erika")
    /\ UNCHANGED <<cfg, req, loc, split>>

\* the reply without the default greeting
reply_text_nodefault(visible_text) == strip(visible_text)

\* lines 512-516
reply_text_of(visible_text) ==
    IF visible_text /= <<>> /\ strip(visible_text) /= <<>>
    THEN strip(visible_text)
    ELSE DEFAULT_REPLY

\* the split that enters the CRM steps whether or not there is a lead id
SplitReply_anylead ==
    /\ pc = "split"
    /\ split' = split_erika_output(ai_full)
    /\ loc' = [loc EXCEPT !.visible_text = split'.visible,
                          !.action = split'.action,
                          !.reply_text = reply_text_of(split'.visible)]
    /\ pc' = "note_reply"
    /\ UNCHANGED <<cfg, req, calls, response, ai_full>>

\* lines 510-519
SplitReply ==
    /\ pc = "split"
    /\ split' = split_erika_output(ai_full)
    /\ loc' = [loc EXCEPT !.visible_text = split'.visible,
                          !.action = split'.action,
                          !.reply_text = reply_text_of(split'.visible)]
    /\ pc' = IF Truthy(loc.lead_id) THEN "note_reply" ELSE "respond"
    /\ UNCHANGED <<cfg, req, calls, response, ai_full>>

\* the reply note outside any try block: its exception leaves the handler
AfterReplyNote_uncaught(raised, action) ==
    IF raised THEN "crash"
    ELSE IF Truthy(action) /\ IsDict(action) THEN "note_summary"
    ELSE "respond"

\* a chain that ends after the reply note
AfterReplyNote_only(raised, action) == "respond"

\* a reply note that is attempted again after it failed
AfterReplyNote_retry(raised, action) ==
    IF raised THEN "note_reply"
    ELSE IF Truthy(action) /\ IsDict(action) THEN "note_summary"
    ELSE "respond"

\* where the try block goes after a note: out through the except clause
\* when the note raised
AfterReplyNote(raised, action) ==
    IF raised THEN "respond"
    ELSE IF Truthy(action) /\ IsDict(action) THEN "note_summary"
    ELSE "respond"

\* lines 520-524
NoteReply ==
    /\ pc = "note_reply"
    /\ \E ok \in BOOLEAN :
         LET r == add_kommo_note(cfg, loc.lead_id, REPLY_LABEL \o loc.reply_text, ok)
         IN  /\ calls' = calls \o r.calls
             /\ pc' = AfterReplyNote(r.raised, loc.action)
    /\ UNCHANGED <<cfg, req, loc, response, ai_full, split>>

AfterSummaryNote(raised) == IF raised THEN "respond" ELSE "stage"

\* lines 525-527
NoteSummary ==
    /\ pc = "note_summary"
    /\ \E ok \in BOOLEAN :
         LET summary == Get(loc.action, "summary_note")
             r == IF Truthy(summary)
                  THEN add_kommo_note(cfg, loc.lead_id,
                                      SUMMARY_LABEL \o PyStr(summary), ok)
                  ELSE Done(<<>>)
         IN  /\ calls' = calls \o r.calls
             /\ pc' = AfterSummaryNote(r.raised)
    /\ UNCHANGED <<cfg, req, loc, response, ai_full, split>>

\* lines 529-534
StageUpdate ==
    /\ pc = "stage"
    /\ \E ok \in BOOLEAN :
         LET stage == Get(loc.action, "kommo_suggested_stage")
             r == IF Truthy(stage)
                  THEN update_lead_stage(cfg, loc.lead_id, stage, ok)
                  ELSE Done(<<>>)
         IN  calls' = calls \o r.calls
    /\ pc' = "respond"
    /\ UNCHANGED <<cfg, req, loc, response, ai_full, split>>

\* lines 536-543
Respond ==
    /\ pc = "respond"
    /\ response' = [Resp(200, "ok", "") EXCEPT !.lead_id = loc.lead_id,
                                               !.ai_response = loc.reply_text,
                                               !.erika_action = loc.action]
    /\ pc' = "done"
    /\ UNCHANGED <<cfg, req, loc, calls, ai_full, split>>

----------------------------------------------------------------------------
(* The requests and environments of kommo_webhook *)

Txt(s) == JStr(<<s>>)
Field(k, v) == << <<k, v>> >>

AUTHORIZED == <<"tecbrilho">>

AccountFields ==
    { <<>>,
      Field("account", MkDict(Field("subdomain", Txt("tecbrilho")))),
      Field("account", MkDict(Field("subdomain", Txt("outro")))),
      Field("account", MkDict(Field("name", Txt("outro")))) }

MessageFields ==
    { <<>>,
      Field("message", MkDict(Field("text", Txt("Hi")))),
      Field("message", MkDict(Field("text", Txt(" ")))),
      Field("message", MkDict(Field("body", Txt("Hi")))),
      Field("message", MkDict(Field("text", JStr(<<>>)) \o Field("message", Txt("Hi")))),
      Field("message", MkDict(Field("entity_id", Txt("42")) \o Field("text", Txt("Hi")))),
      Field("message", Txt("hi")) }

ConversationFields ==
    { <<>>,
      Field("conversation", MkDict(Field("last_message", None))),
      Field("conversation", MkDict(Field("last_message", MkDict(Field("text", Txt("Last"))))
                                   \o Field("lead_id", JInt(7)))) }

LeadFields ==
    { <<>>,
      Field("lead", MkDict(Field("id", JInt(42)))),
      Field("lead", MkDict(Field("id", Txt("abc")))) }

\* a payload with its fields at the top, under "data", or under "data" of
\* a widget callback (token and return address at the top)
Wrapped(shape, account, fields) ==
    CASE shape = "flat" -> MkDict(account \o fields)
      [] shape = "data" -> MkDict(account \o Field("data", MkDict(fields)))
      [] shape = "widget" ->
            MkDict(Field("token", Txt("t1")) \o Field("return_url", Txt("https://x"))
                   \o account \o Field("data", MkDict(fields)))

JsonPayloads ==
    { Wrapped(shape, a, m \o cv \o l) :
        shape \in {"flat", "data", "widget"}, a \in AccountFields,
        m \in MessageFields, cv \in ConversationFields, l \in LeadFields }
    \cup { JList(<<>>), Txt("hi"), None,
           MkDict(Field("text", Txt("Hi")) \o Field("lead_id", JInt(7))),
           MkDict(Field("last_message", MkDict(Field("text", Txt("Hi"))))),
           MkDict(Field("account", Txt("outro")) \o Field("text", Txt("Hi"))),
           MkDict(Field("data", Txt("x"))),
           MkDict(Field("text", Txt("Hi")) \o Field("lead", JInt(7))),
           MkDict(Field("text", Txt("Hi")) \o Field("lead_id", JInt(7))
                  \o Field("contact", MkDict(Field("phones",
                        JList(<<MkDict(Field("phone", Txt("+5511")))>>))))),
           MkDict(Field("text", Txt("Hi"))
                  \o Field("contact", MkDict(Field("phones", JList(<<Txt("+5511")>>))))) }

MaxFormFields == 2      \* key=value pairs in a form-encoded body

FormFields ==
    { <<"account[subdomain]", <<"tecbrilho">> >>, <<"account[subdomain]", <<"outro">> >>,
      <<"message[text]", <<"Hi">> >>, <<"message[text]", <<" ">> >>,
      <<"message[body]", <<"Body">> >>,
      <<"message[add][0][text]", <<"Added">> >>,
      <<"message[add][0][type]", <<"incoming">> >>,
      <<"message[add][0][entity_id]", <<"42">> >>,
      <<"message[add][0][element_id]", <<"abc">> >>,
      <<"lead[id]", <<"7">> >>, <<"leads[0][id]", <<"0">> >>,
      <<"contact[phone]", <<"+5511">> >>, <<"event", <<"incoming">> >> }

FormBodies ==
    { qs \in UNION { [1..n -> FormFields] : n \in 0..MaxFormFields } :
        \A i, j \in DOMAIN qs : i /= j => qs[i][1] /= qs[j][1] }

JsonBody(v) == [enc |-> "json", val |-> v, qs |-> <<>>]
FormBody(qs) == [enc |-> "form", val |-> None, qs |-> qs]
BadBody == [enc |-> "bad", val |-> None, qs |-> <<>>]

ContentTypes == {"application/json", "application/x-www-form-urlencoded", ""}

WebhookRequests ==
    { [kind |-> "webhook", content_type |-> "application/json", body |-> JsonBody(p)] :
        p \in JsonPayloads }
    \cup { [kind |-> "webhook", content_type |-> "application/x-www-form-urlencoded",
            body |-> FormBody(qs)] : qs \in FormBodies }
    \cup { [kind |-> "webhook", content_type |-> ct, body |-> b] :
             ct \in ContentTypes,
             b \in { BadBody,
                     JsonBody(MkDict(Field("text", Txt("Hi")))),
                     FormBody(Field("message[text]", <<"Hi">>)) } }

StatusEnv == [n \in {"KOMMO_STATUS_REENGAJAR"} |-> <<"142">>]

WebhookConfigs ==
    { [AUTHORIZED_SUBDOMAIN |-> a, KOMMO_DOMAIN |-> k, KOMMO_TOKEN |-> k,
       ERIKA_ASSISTANT_ID |-> e, env |-> StatusEnv, CRON_SECRET |-> <<>>] :
        a \in {<<>>, AUTHORIZED}, k \in {<<>>, <<"kommo">>}, e \in {<<>>, <<"asst">>} }


----------------------------------------------------------------------------
(* cron_reactivar *)

WHATSAPP_LABEL == <<"[MENSAGEM PARA WHATSAPP]", "\n">>
REACTIVATION_LABEL == <<"[ERIKA REATIVAÇÃO]", "\n">>
DEFAULT_REACTIVATION ==
    <<"Oi, tudo bem? Aqui é a Erika, da TecBrilho. Passei pra saber se ainda faz sentido pra você cuidar daquele serviço no seu carro.">>

\* lines 224-250: the placeholder delivery writes a note and swallows its
\* failure
send_whatsapp_via_kommo(c, lead, text, ok) ==
    IF ~Truthy(Get(lead, "id")) THEN Done(<<>>)
    ELSE Done(add_kommo_note(c, Get(lead, "id"), WHATSAPP_LABEL \o text, ok).calls)

\* lines 166-196: "skip" (not configured: no request, no leads), "raise",
\* or "ok" with the leads of the CRM
fetch_leads_for_reactivation(c, ok) ==
    IF ~KommoConfigured(c) THEN "skip"
    ELSE IF getenv(c, "KOMMO_STATUS_REENGAJAR") = <<>> THEN "skip"
    ELSE IF py_int(JStr(getenv(c, "KOMMO_STATUS_REENGAJAR"))).exc THEN "raise"
    ELSE IF ok THEN "ok"
    ELSE "raise"

\* the key check that lets any key through once a secret is configured
CronKeyCheck_anykey(c, key) ==
    IF c.CRON_SECRET = <<>> THEN "unconfigured" ELSE "pass"

\* lines 556-563: "unconfigured" (HTTPException 500), "unauthorized"
\* (HTTPException 401) or "pass"
CronKeyCheck(c, key) ==
    IF c.CRON_SECRET = <<>> THEN "unconfigured"
    ELSE IF ~Truthy(key) \/ key /= JStr(c.CRON_SECRET) THEN "unauthorized"
    ELSE "pass"

\* lines 556-574
CronStart ==
    /\ pc = "request"
    /\ req.kind = "cron"
    /\ \E ok \in BOOLEAN :
         LET fetched == fetch_leads_for_reactivation(cfg, ok)
             listed == IF fetched = "skip" THEN <<>>
                       ELSE <<Call("list", None, getenv(cfg, "KOMMO_STATUS_REENGAJAR"), ok)>>
             leads == IF fetched = "ok" THEN req.leads ELSE <<>>
             key == CronKeyCheck(cfg, req.x_cron_key)
         IN  IF key = "unconfigured"
             THEN /\ response' = Resp(500, "", "CRON_SECRET não configurado")
                  /\ pc' = "done"
                  /\ UNCHANGED <<loc, calls>>
             ELSE IF key = "unauthorized"
             THEN /\ response' = Resp(401, "", "Não autorizado")
                  /\ pc' = "done"
                  /\ UNCHANGED <<loc, calls>>
             ELSE IF fetched = "raise"
             THEN /\ response' = Resp(500, "", "Erro ao buscar leads para reativação")
                  /\ pc' = "done"
                  /\ calls' = calls \o listed
                  /\ loc' = loc
             ELSE IF leads = <<>>
             THEN /\ response' = Resp(200, "ok", "")
                  /\ pc' = "done"
                  /\ calls' = calls \o listed
                  /\ loc' = loc
             ELSE /\ response' = response
                  /\ pc' = "lead"
                  /\ calls' = calls \o listed
                  /\ loc' = [leads |-> leads, i |-> 1, detalhes |-> <<>>]
    /\ UNCHANGED <<cfg, req, ai_full, split>>

Detail(lead_id, should_reactivate, suggested_stage, summary_note) ==
    [kind |-> "result", lead_id |-> lead_id, should_reactivate |-> should_reactivate,
     suggested_stage |-> suggested_stage, summary_note |-> summary_note]

ErrorDetail(lead_id) ==
    [kind |-> "error", lead_id |-> lead_id, should_reactivate |-> FALSE,
     suggested_stage |-> None, summary_note |-> None]

\* lines 615-620
reactivation_text_of(visible_text) ==
    IF strip(visible_text) = <<>> THEN DEFAULT_REACTIVATION ELSE strip(visible_text)

\* a decision that takes the presence of should_reactivate for its value
should_reactivate_present(action) ==
    Truthy(action) /\ IsDict(action) /\ "should_reactivate" \in DOMAIN action.d

\* lines 626-629 and 639: whether the action asks for reactivation
should_reactivate_of(action) ==
    Truthy(action) /\ IsDict(action) /\ Truthy(Get(action, "should_reactivate"))

\* lines 583-664, one lead with an id: the requests issued and the entry
\* appended.  ans is the assistant's answer; okNote, okSend and okStage are
\* the CRM's answers to the requests that get issued.
ProcessLead(c, lead, ans, okNote, okSend, okStage) ==
    LET lead_id == Get(lead, "id")
        asked == <<Call("assistant", lead_id, <<"MODO REATIVAÇÃO">>, ans.ok)>>
    IN  IF ~ans.ok
        THEN [calls |-> asked, entry |-> ErrorDetail(lead_id)]
        ELSE LET out == split_erika_output(ans.text)
                 visible_text == reactivation_text_of(out.visible)
                 isobj == Truthy(out.action) /\ IsDict(out.action)
                 should_reactivate == should_reactivate_of(out.action)
                 suggested_stage ==
                    IF isobj THEN Get(out.action, "kommo_suggested_stage") ELSE None
                 summary_note ==
                    IF isobj THEN Get(out.action, "summary_note") ELSE None
                 noted == IF Truthy(summary_note)
                          THEN add_kommo_note(c, lead_id,
                                 REACTIVATION_LABEL \o PyStr(summary_note), okNote).calls
                          ELSE <<>>
                 sent == IF should_reactivate
                         THEN send_whatsapp_via_kommo(c, lead, visible_text, okSend).calls
                         ELSE <<>>
                 staged == IF should_reactivate /\ Truthy(suggested_stage)
                           THEN update_lead_stage(c, lead_id, suggested_stage, okStage).calls
                           ELSE <<>>
             IN  [calls |-> asked \o noted \o sent \o staged,
                  entry |-> Detail(lead_id, should_reactivate, suggested_stage,
                                   summary_note)]

\* one turn of the loop without the try block around the lead: a failed
\* assistant call leaves the handler
CronLead_uncaught ==
    /\ pc = "lead"
    /\ loc.i <= Len(loc.leads)
    /\ LET lead == loc.leads[loc.i]
       IN  IF ~Truthy(Get(lead, "id"))
           THEN /\ calls' = calls
                /\ loc' = [loc EXCEPT !.i = @ + 1]
                /\ pc' = pc
           ELSE \E ans \in ErikaAnswers(cfg), okNote, okSend, okStage \in BOOLEAN :
                  LET r == ProcessLead(cfg, lead, ans, okNote, okSend, okStage)
                  IN  /\ calls' = calls \o r.calls
                      /\ loc' = IF ans.ok
                                THEN [loc EXCEPT !.i = @ + 1,
                                                 !.detalhes = Append(@, r.entry)]
                                ELSE loc
                      /\ pc' = IF ans.ok THEN pc ELSE "crash"
    /\ UNCHANGED <<cfg, req, response, ai_full, split>>

\* one turn of the loop that reports a lead without an id as an error
\* instead of skipping it
CronLead_noskip ==
    /\ pc = "lead"
    /\ loc.i <= Len(loc.leads)
    /\ LET lead == loc.leads[loc.i]
       IN  IF ~Truthy(Get(lead, "id"))
           THEN /\ calls' = calls
                /\ loc' = [loc EXCEPT !.i = @ + 1,
                                      !.detalhes = Append(@, ErrorDetail(None))]
           ELSE \E ans \in ErikaAnswers(cfg), okNote, okSend, okStage \in BOOLEAN :
                  LET r == ProcessLead(cfg, lead, ans, okNote, okSend, okStage)
                  IN  /\ calls' = calls \o r.calls
                      /\ loc' = [loc EXCEPT !.i = @ + 1,
                                            !.detalhes = Append(@, r.entry)]
    /\ UNCHANGED <<cfg, req, pc, response, ai_full, split>>

\* lines 578-664: one turn of the loop
CronLead ==
    /\ pc = "lead"
    /\ loc.i <= Len(loc.leads)
    /\ LET lead == loc.leads[loc.i]
       IN  IF ~Truthy(Get(lead, "id"))
           THEN /\ calls' = calls
                /\ loc' = [loc EXCEPT !.i = @ + 1]
           ELSE \E ans \in ErikaAnswers(cfg), okNote, okSend, okStage \in BOOLEAN :
                  LET r == ProcessLead(cfg, lead, ans, okNote, okSend, okStage)
                  IN  /\ calls' = calls \o r.calls
                      /\ loc' = [loc EXCEPT !.i = @ + 1,
                                            !.detalhes = Append(@, r.entry)]
    /\ UNCHANGED <<cfg, req, pc, response, ai_full, split>>

\* lines 666-670
CronReturn ==
    /\ pc = "lead"
    /\ loc.i > Len(loc.leads)
    /\ response' = [Resp(200, "ok", "") EXCEPT !.processed = Len(loc.detalhes),
                                               !.details = loc.detalhes]
    /\ pc' = "done"
    /\ UNCHANGED <<cfg, req, loc, calls, ai_full, split>>

----------------------------------------------------------------------------
(* The requests and environments of cron_reactivar *)

CRON_KEY == <<"s3cret">>

\* leads as the CRM lists them: objects, with or without an id
LeadRecords ==
    { MkDict(Field("id", JInt(7)) \o Field("name", Txt("Ana"))),
      MkDict(Field("id", JInt(42))),
      MkDict(Field("name", Txt("Sem id"))) }

LeadLists == UNION { [1..n -> LeadRecords] : n \in 0..MaxLeads }

CronRequests ==
    { [kind |-> "cron", x_cron_key |-> k, leads |-> ls] :
        k \in {None, JStr(CRON_KEY), Txt("outra")}, ls \in LeadLists }

CronConfigs ==
    { [AUTHORIZED_SUBDOMAIN |-> <<>>, KOMMO_DOMAIN |-> k, KOMMO_TOKEN |-> k,
       ERIKA_ASSISTANT_ID |-> e, env |-> StatusEnv, CRON_SECRET |-> s] :
        k \in {<<>>, <<"kommo">>}, e \in {<<>>, <<"asst">>}, s \in {<<>>, CRON_KEY} }

InitCron ==
    /\ cfg \in CronConfigs
    /\ req \in CronRequests
    /\ pc = "request"
    /\ loc = NoLoc
    /\ calls = <<>>
    /\ response = NoResponse
    /\ ai_full = <<>>
    /\ split = NoSplit

----------------------------------------------------------------------------
(* The service: one request to one of its two endpoints *)

InitWebhook ==
    /\ cfg \in WebhookConfigs
    /\ req \in WebhookRequests
    /\ pc = "request"
    /\ loc = NoLoc
    /\ calls = <<>>
    /\ response = NoResponse
    /\ ai_full = <<>>
    /\ split = NoSplit

Init == InitWebhook \/ InitCron

Next ==
    \/ ReadRequest
    \/ Crash
    \/ CallErika
    \/ SplitReply
    \/ NoteReply
    \/ NoteSummary
    \/ StageUpdate
    \/ Respond
    \/ CronStart
    \/ CronLead
    \/ CronReturn

Spec == Init /\ [][Next]_vars

----------------------------------------------------------------------------
(* split_erika_output alone: the raw text is any concatenation of at most  *)
(* MaxChunks pieces.                                                       *)

Chunks ==
    { ACTION_START, ACTION_END, <<" ">>, <<"Hello">>,
      <<"{", "sn:greeted", "}">>, <<"{">>, <<"###">> }

RECURSIVE Flatten(_)
Flatten(ss) == IF ss = <<>> THEN <<>> ELSE Head(ss) \o Flatten(Tail(ss))

SplitInputs ==
    { Flatten(ss) : ss \in UNION { [1..n -> Chunks] : n \in 0..MaxChunks } }

InitSplit ==
    /\ ai_full \in SplitInputs
    /\ split = NoSplit
    /\ pc = "split"
    /\ cfg = NoCfg
    /\ req = [kind |-> "split"]
    /\ loc = NoLoc
    /\ calls = <<>>
    /\ response = NoResponse

ApplySplit ==
    /\ pc = "split"
    /\ split' = split_erika_output(ai_full)
    /\ pc' = "returned"
    /\ UNCHANGED <<cfg, req, loc, calls, response, ai_full>>

NextSplit == ApplySplit

SpecSplit == InitSplit /\ [][NextSplit]_vars

----------------------------------------------------------------------------
(* Properties of split_erika_output *)

\* starts of the occurrences of sub in s
Occ(s, sub) ==
    {i \in 1..(Len(s) - Len(sub) + 1) : SubSeq(s, i, i + Len(sub) - 1) = sub}

IsLast(i, S) == i \in S /\ \A j \in S : j <= i

Blank(s) == \A i \in 1..Len(s) : s[i] \in WS

\* v is s without its trailing whitespace
IsRstripOf(v, s) ==
    /\ Len(v) <= Len(s)
    /\ v = SubSeq(s, 1, Len(v))
    /\ v /= <<>> => v[Len(v)] \notin WS
    /\ \A i \in (Len(v) + 1)..Len(s) : s[i] \in WS

\* v is s without its leading and trailing whitespace
IsStripOf(v, s) ==
    \/ Blank(s) /\ v = <<>>
    \/ \E a \in 1..Len(s) :
          /\ s[a] \notin WS
          /\ \A i \in 1..(a - 1) : s[i] \in WS
          /\ IsRstripOf(v, SubSeq(s, a, Len(s)))

\* the text after the start sentinel at i
AfterStart(s, i) == SubSeq(s, i + Len(ACTION_START), Len(s))

\* the block of the start sentinel at i: up to the last end sentinel after
\* it, or to the end of the text when there is none
BlockOf(s, i) ==
    LET after == AfterStart(s, i)
        ends == Occ(after, ACTION_END)
    IN  IF ends = {} THEN after
        ELSE SubSeq(after, 1, (CHOOSE j \in ends : IsLast(j, ends)) - 1)

\* C7: when the text has a start sentinel and the text between its last
\* start sentinel and the (last) end sentinel after it is valid structured
\* data, the visible text is the text before that start sentinel without its
\* trailing whitespace, and the action is the decoded value of that block.
C7_SplitWellFormed ==
    pc = "returned" =>
        \A i \in Occ(ai_full, ACTION_START) :
            ( /\ IsLast(i, Occ(ai_full, ACTION_START))
              /\ Occ(AfterStart(ai_full, i), ACTION_END) /= {}
              /\ json_loads(BlockOf(ai_full, i)).ok )
            => /\ IsRstripOf(split.visible, SubSeq(ai_full, 1, i - 1))
               /\ split.action = json_loads(BlockOf(ai_full, i)).val

\* C7 witness: a reply followed by whitespace and a closed, valid block has
\* been split into the trimmed reply and the decoded object
C7_Witness ==
    /\ pc = "returned"
    /\ \E i \in Occ(ai_full, ACTION_START) :
          /\ IsLast(i, Occ(ai_full, ACTION_START))
          /\ Occ(AfterStart(ai_full, i), ACTION_END) /= {}
          /\ json_loads(BlockOf(ai_full, i)).ok
          /\ SubSeq(ai_full, 1, i - 1) = <<"Hello", " ">>
    /\ split.visible = <<"Hello">>
    /\ split.action = MkDict(<< <<"summary_note", JStr(<<"greeted">>)>> >>)

\* the two degraded cases of C8, with the visible text expected when there
\* is no start sentinel left open
C8_Degrades(whole) ==
    pc = "returned" =>
        /\ Occ(ai_full, ACTION_START) = {}
              => /\ whole
                 /\ split.action = None
        /\ \A i \in Occ(ai_full, ACTION_START) :
              ( /\ IsLast(i, Occ(ai_full, ACTION_START))
                /\ \/ Blank(BlockOf(ai_full, i))
                   \/ ~json_loads(BlockOf(ai_full, i)).ok )
              => /\ IsRstripOf(split.visible, SubSeq(ai_full, 1, i - 1))
                 /\ split.action = None

\* C8 (as amended): with a start sentinel whose block is empty or does not
\* decode, the parser returns the text before the sentinel (right-trimmed)
\* and no action; with no start sentinel it returns the whole text with its
\* leading and trailing whitespace removed, and no action.
C8_SplitDegrades == C8_Degrades(IsStripOf(split.visible, ai_full))

\* C8 as stated: with no start sentinel the visible text is the whole text
C8_AsStated == C8_Degrades(split.visible = ai_full)

\* C8 witness: a text with a start sentinel and an undecodable block has
\* been split into its visible part and no action
C8_Witness ==
    /\ pc = "returned"
    /\ \E i \in Occ(ai_full, ACTION_START) :
          /\ IsLast(i, Occ(ai_full, ACTION_START))
          /\ ~Blank(BlockOf(ai_full, i))
          /\ ~json_loads(BlockOf(ai_full, i)).ok
    /\ split.visible = <<"Hello">>
    /\ split.action = None

----------------------------------------------------------------------------
(* Properties of kommo_webhook and cron_reactivar *)

IsWebhook == req.kind = "webhook"
IsCron == req.kind = "cron"

\* the decoded payload of the webhook request
Decoded == DecodeBody(req.content_type, req.body)

IsPrefix(p, s) == Len(p) <= Len(s) /\ SubSeq(s, 1, Len(p)) = p

\* the value under a path of keys; None where the path leaves the mappings
RECURSIVE PathGet(_, _)
PathGet(v, path) ==
    IF path = <<>> THEN v
    ELSE IF v.t = "dict" /\ Head(path) \in DOMAIN v.d
         THEN PathGet(v.d[Head(path)], Tail(path))
    ELSE None

\* where the handler looks for the event: under "data" when there is one
ProbedRoot(p) == IF Truthy(PathGet(p, <<"data">>)) THEN PathGet(p, <<"data">>) ELSE p

TextPaths ==
    { <<"message", "text">>, <<"message", "body">>, <<"message", "message">>,
      <<"conversation", "last_message", "text">>, <<"last_message", "text">>,
      <<"text">> }

\* absent, empty or whitespace-only
NoTextValue(v) == ~Truthy(v) \/ (v.t = "str" /\ Blank(v.s))

NoMessageText(p) ==
    \A path \in TextPaths : NoTextValue(PathGet(ProbedRoot(p), path))

AssistantFailed == \E i \in DOMAIN calls : calls[i].op = "assistant" /\ ~calls[i].ok
AssistantSucceeded == \E i \in DOMAIN calls : calls[i].op = "assistant" /\ calls[i].ok

IsReplyNote(c) == c.op = "note" /\ IsPrefix(REPLY_LABEL, c.arg)
IsSummaryNote(c) == c.op = "note" /\ IsPrefix(SUMMARY_LABEL, c.arg)
IsDeliveryNote(c) == c.op = "note" /\ IsPrefix(WHATSAPP_LABEL, c.arg)

\* C1: a webhook request whose decoded payload carries no message text at
\* any probed location, and that the subdomain check lets through, is
\* answered "ignored", and no assistant call and no CRM request is made.
C1_AsStated ==
    ( /\ IsWebhook
      /\ pc = "done"
      /\ ~Decoded.exc
      /\ response.code /= 401
      /\ NoMessageText(Decoded.val) )
    => /\ response.code = 200
       /\ response.status = "ignored"
       /\ calls = <<>>

\* a stage name that the catalog and the environment resolve to an identifier
StageResolves(stage) ==
    /\ stage.t = "str"
    /\ Len(stage.s) = 1
    /\ stage.s[1] \in DOMAIN STAGE_ENV_MAP
    /\ getenv(cfg, STAGE_ENV_MAP[stage.s[1]]) /= <<>>

\* C2: in the live flow a failed CRM step does not keep the later steps from
\* being attempted: after a failed reply note the summary note (when the
\* action has one) and the stage update (when the action suggests a stage
\* that resolves) are still requested, and after a failed summary note the
\* stage update is still requested.
C2_AsStated ==
    (IsWebhook /\ pc = "done") =>
        LET replyFailed == \E i \in DOMAIN calls : IsReplyNote(calls[i]) /\ ~calls[i].ok
            summaryFailed == \E i \in DOMAIN calls : IsSummaryNote(calls[i]) /\ ~calls[i].ok
            summaryTried == \E i \in DOMAIN calls : IsSummaryNote(calls[i])
            stageTried == \E i \in DOMAIN calls : calls[i].op = "stage"
            isobj == Truthy(loc.action) /\ IsDict(loc.action)
            hasSummary == isobj /\ Truthy(Get(loc.action, "summary_note"))
            hasStage == isobj /\ StageResolves(Get(loc.action, "kommo_suggested_stage"))
        IN  /\ (replyFailed /\ hasSummary) => summaryTried
            /\ (replyFailed /\ hasStage) => stageTried
            /\ (summaryFailed /\ hasStage) => stageTried

\* the widget-callback shape: a token, a return address and a data block
\* that carries the message
IsWidget(p) ==
    /\ IsDict(p)
    /\ Truthy(PathGet(p, <<"token">>))
    /\ Truthy(PathGet(p, <<"return_url">>))
    /\ Truthy(PathGet(p, <<"data", "message">>))

\* C3: for a widget-callback request whose assistant call failed, a fallback
\* message is POSTed to the return address of the request and the answer of
\* the webhook is not 500.
C3_AsStated ==
    ( /\ IsWebhook
      /\ pc = "done"
      /\ ~Decoded.exc
      /\ IsWidget(Decoded.val)
      /\ AssistantFailed )
    => /\ \E i \in DOMAIN calls :
             /\ calls[i].op = "callback"
             /\ calls[i].arg = PathGet(Decoded.val, <<"return_url">>).s
       /\ response.code /= 500

\* the ids of the fetched leads that have one, in fetch order
RECURSIVE LeadIds(_)
LeadIds(ls) ==
    IF ls = <<>> THEN <<>>
    ELSE IF Truthy(PathGet(Head(ls), <<"id">>))
         THEN <<PathGet(Head(ls), <<"id">>)>> \o LeadIds(Tail(ls))
    ELSE LeadIds(Tail(ls))

AssistantCalls == SelectSeq(calls, LAMBDA c : c.op = "assistant")

\* C4: once the batch has fetched its leads, no failure on a lead aborts it:
\* the batch ends with 200, every fetched lead with an id was handed to the
\* assistant, and the details hold one entry per such lead, in order, an
\* error entry exactly where the assistant call of that lead failed.
C4_BatchSurvivesLeadFailure ==
    (IsCron /\ "leads" \in DOMAIN loc) =>
        /\ pc /= "crash"
        /\ pc = "done" =>
             LET ids == LeadIds(loc.leads)
             IN  /\ response.code = 200
                 /\ response.status = "ok"
                 /\ Len(response.details) = Len(ids)
                 /\ Len(AssistantCalls) = Len(ids)
                 /\ \A k \in DOMAIN ids :
                      /\ response.details[k].lead_id = ids[k]
                      /\ AssistantCalls[k].lead = ids[k]
                      /\ response.details[k].kind =
                            (IF AssistantCalls[k].ok THEN "result" ELSE "error")

\* C4 witness: a batch of two leads has ended, the first lead's assistant
\* call failed and the second lead was processed normally
C4_Witness ==
    /\ IsCron
    /\ pc = "done"
    /\ Len(response.details) = 2
    /\ response.details[1].kind = "error"
    /\ response.details[2].kind = "result"
    /\ response.details[2].should_reactivate
    /\ response.processed = 2

\* C5: once the assistant call has succeeded, the live request ends with
\* 200, status "ok" and the reply in ai_response, whatever the CRM answers.
C5_ReplySurvivesCrmFailure ==
    (IsWebhook /\ AssistantSucceeded) =>
        /\ pc /= "crash"
        /\ pc = "done" =>
             /\ response.code = 200
             /\ response.status = "ok"
             /\ response.ai_response = loc.reply_text
             /\ IsStripOf(response.ai_response, split.visible)
                \/ (Blank(split.visible) /\ response.ai_response = DEFAULT_REPLY)

\* C5 witness: a live request whose reply note was refused by the CRM has
\* been answered "ok" with the assistant's reply
C5_Witness ==
    /\ IsWebhook
    /\ pc = "done"
    /\ \E i \in DOMAIN calls : IsReplyNote(calls[i]) /\ ~calls[i].ok
    /\ response.status = "ok"
    /\ response.ai_response = <<"Hello">>

\* C6: a webhook request ends with 200 ok, 200 ignored, 400, 401 or 500;
\* 500 only after an assistant call that failed, 400 only for a body that
\* cannot be decoded.
C6_AsStated ==
    (IsWebhook /\ pc = "done") =>
        /\ response.code \in {200, 400, 401, 500}
        /\ response.code = 200 => response.status \in {"ok", "ignored"}
        /\ response.code = 400 => Decoded.exc
        /\ response.code = 500 =>
              /\ calls /= <<>>
              /\ calls[Len(calls)].op = "assistant"
              /\ ~calls[Len(calls)].ok

\* C9: the customer-facing text is never empty.  An "ok" answer of the
\* webhook carries a reply that is not blank, every reply note carries the
\* label followed by that same reply, and every outbound delivery of the
\* reactivation flow carries a text that is not blank.
C9_ReplyNeverEmpty ==
    /\ (IsWebhook /\ pc = "done" /\ response.status = "ok") =>
          /\ ~Blank(response.ai_response)
          /\ \A i \in DOMAIN calls :
                IsReplyNote(calls[i]) => calls[i].arg = REPLY_LABEL \o response.ai_response
    /\ (IsWebhook /\ pc /= "done") =>
          \A i \in DOMAIN calls :
             IsReplyNote(calls[i]) =>
                /\ ~Blank(loc.reply_text)
                /\ calls[i].arg = REPLY_LABEL \o loc.reply_text
    /\ IsCron =>
          \A i \in DOMAIN calls :
             IsDeliveryNote(calls[i]) =>
                ~Blank(SubSeq(calls[i].arg, Len(WHATSAPP_LABEL) + 1, Len(calls[i].arg)))

\* C9 witness: the assistant answered with an action block only, and the
\* request was answered "ok" with the default greeting, which the reply note
\* carries too
C9_Witness ==
    /\ IsWebhook
    /\ pc = "done"
    /\ response.status = "ok"
    /\ ai_full /= <<>>
    /\ split.visible = <<>>
    /\ response.ai_response = DEFAULT_REPLY
    /\ \E i \in DOMAIN calls : calls[i].arg = REPLY_LABEL \o DEFAULT_REPLY

\* the account tag the payload carries, None when it carries none
InboundTag(p) ==
    LET account == PathGet(p, <<"account">>)
    IN  IF account.t /= "dict" THEN None
        ELSE IF Truthy(PathGet(account, <<"subdomain">>))
             THEN PathGet(account, <<"subdomain">>)
        ELSE PathGet(account, <<"name">>)

\* C10: with an authorized subdomain configured and a payload whose account
\* tag differs from it, the webhook answers 401 and has made no assistant
\* call and no CRM request; with no subdomain configured, or a payload that
\* carries no tag, the answer is not 401.
C10_SubdomainCheck ==
    (IsWebhook /\ pc /= "request" /\ ~Decoded.exc) =>
        LET tag == InboundTag(Decoded.val)
        IN  /\ ( /\ cfg.AUTHORIZED_SUBDOMAIN /= <<>>
                 /\ Truthy(tag)
                 /\ tag /= JStr(cfg.AUTHORIZED_SUBDOMAIN) )
               => /\ pc = "done"
                  /\ response.code = 401
                  /\ calls = <<>>
            /\ (cfg.AUTHORIZED_SUBDOMAIN = <<>> \/ ~Truthy(tag))
               => response.code /= 401

\* C10 witness: a request with a message and a foreign account tag was
\* rejected with 401
C10_Witness ==
    /\ IsWebhook
    /\ pc = "done"
    /\ response.code = 401
    /\ ~Decoded.exc
    /\ InboundTag(Decoded.val) = JStr(<<"outro">>)
    /\ ~NoMessageText(Decoded.val)

----------------------------------------------------------------------------
(* Properties of the reactivation trigger and of the side-effect chain *)

\* C11: the reactivation trigger lists no leads, calls no assistant and
\* writes nothing to the CRM unless the secret is configured and the key of
\* the request equals it: without a configured secret it answers 500
\* whatever the key, and with a secret and a missing or different key it
\* answers 401.
C11_CronGuard ==
    IsCron =>
        /\ pc = "request" => calls = <<>>
        /\ (pc /= "request" /\ cfg.CRON_SECRET = <<>>) =>
              /\ pc = "done"
              /\ response.code = 500
              /\ calls = <<>>
        /\ ( /\ pc /= "request"
             /\ cfg.CRON_SECRET /= <<>>
             /\ req.x_cron_key /= JStr(cfg.CRON_SECRET) ) =>
              /\ pc = "done"
              /\ response.code = 401
              /\ calls = <<>>

\* C11 witness: with a secret and the CRM configured and leads to fetch, a
\* request with a different key was answered 401
C11_Witness ==
    /\ IsCron
    /\ pc = "done"
    /\ cfg.CRON_SECRET /= <<>>
    /\ KommoConfigured(cfg)
    /\ req.x_cron_key = JStr(<<"outra">>)
    /\ req.leads /= <<>>
    /\ response.code = 401

\* a suggested stage that is a name the catalog and the environment do not
\* resolve to an identifier
IsUnresolvedName(stage) == Truthy(stage) /\ stage.t = "str" /\ ~StageResolves(stage)

\* the suggested stage of an action, None when the action is not an object
SuggestedStage(action) ==
    IF Truthy(action) /\ IsDict(action)
    THEN PathGet(action, <<"kommo_suggested_stage">>)
    ELSE None

StageCalls == SelectSeq(calls, LAMBDA c : c.op = "stage")

\* C12: a suggested stage name without a catalog entry (names are matched
\* exactly, so a name that differs in case has none), or whose entry has no
\* configured identifier, is a no-op: update_lead_stage issues no request
\* and does not raise, no stage update appears among the requests, and the
\* request goes on: the webhook answers 200 "ok", and the lead of the batch
\* gets a normal entry.
C12_UnresolvedStageNoOp ==
    /\ (IsWebhook /\ pc = "stage" /\ IsUnresolvedName(SuggestedStage(loc.action))) =>
          \A ok \in BOOLEAN :
             update_lead_stage(cfg, loc.lead_id, SuggestedStage(loc.action), ok)
                = Done(<<>>)
    /\ ( /\ IsWebhook
         /\ pc \in {"respond", "done"}
         /\ AssistantSucceeded
         /\ IsUnresolvedName(SuggestedStage(loc.action)) ) =>
          /\ StageCalls = <<>>
          /\ pc = "done" => (response.code = 200 /\ response.status = "ok")
    /\ ( /\ IsCron
         /\ "detalhes" \in DOMAIN loc
         /\ \A k \in DOMAIN loc.detalhes :
               ~StageResolves(loc.detalhes[k].suggested_stage) ) =>
          /\ StageCalls = <<>>
          /\ \A k \in DOMAIN loc.detalhes :
                IsUnresolvedName(loc.detalhes[k].suggested_stage)
                   => loc.detalhes[k].kind = "result"

\* C12 witness: the live request of a lead, with the CRM configured, whose
\* action suggested the stage "reengajar" (the catalog has "Reengajar") was
\* answered "ok" after its reply note, and no stage update was requested
C12_Witness ==
    /\ IsWebhook
    /\ pc = "done"
    /\ KommoConfigured(cfg)
    /\ AssistantSucceeded
    /\ SuggestedStage(loc.action) = JStr(<<"reengajar">>)
    /\ \E i \in DOMAIN calls : IsReplyNote(calls[i]) /\ calls[i].ok
    /\ StageCalls = <<>>
    /\ response.status = "ok"

ReplyNoteCalls == SelectSeq(calls, LAMBDA c : IsReplyNote(c))
SummaryNoteCalls == SelectSeq(calls, LAMBDA c : IsSummaryNote(c))

\* C13: a webhook request has one side-effect chain without retries: the
\* assistant is called at most once, and the reply note, the summary note
\* and the stage update are each requested at most once, whether or not the
\* request succeeded; the chain holds nothing else.
C13_SingleAttempt ==
    IsWebhook =>
        /\ Len(AssistantCalls) <= 1
        /\ Len(ReplyNoteCalls) <= 1
        /\ Len(SummaryNoteCalls) <= 1
        /\ Len(StageCalls) <= 1
        /\ Len(calls) = Len(AssistantCalls) + Len(ReplyNoteCalls)
                        + Len(SummaryNoteCalls) + Len(StageCalls)

\* C13 witness: a live request went through the whole chain, the CRM
\* refused its stage update, and each of the four requests was made once
C13_Witness ==
    /\ IsWebhook
    /\ pc = "done"
    /\ Len(calls) = 4
    /\ calls[1].op = "assistant"
    /\ IsReplyNote(calls[2])
    /\ IsSummaryNote(calls[3])
    /\ calls[4].op = "stage"
    /\ ~calls[4].ok

\* the summary note of an action, None when the action is not an object
SummaryOf(action) ==
    IF Truthy(action) /\ IsDict(action)
    THEN PathGet(action, <<"summary_note">>)
    ELSE None

\* C14: a webhook event with an (integer) lead id, whose assistant output
\* carries an action with a summary note and no suggested stage, handled
\* with the CRM configured and every CRM request succeeding, issues exactly
\* two notes on that lead, the reply note (label, then the visible reply)
\* first and the summary note second, attempts no stage update, and is
\* answered "ok" with that lead id and the visible reply.
C14_ReplyThenSummary ==
    ( /\ IsWebhook
      /\ pc = "done"
      /\ AssistantSucceeded
      /\ KommoConfigured(cfg)
      /\ loc.lead_id.t = "int"
      /\ Truthy(loc.lead_id)
      /\ Truthy(SummaryOf(loc.action))
      /\ ~Truthy(SuggestedStage(loc.action))
      /\ \A i \in DOMAIN calls : calls[i].ok )
    => /\ Len(calls) = 3
       /\ calls[1].op = "assistant"
       /\ calls[2] = Call("note", loc.lead_id, REPLY_LABEL \o response.ai_response, TRUE)
       /\ calls[3] = Call("note", loc.lead_id,
                          SUMMARY_LABEL \o SummaryOf(loc.action).s, TRUE)
       /\ StageCalls = <<>>
       /\ response.code = 200
       /\ response.status = "ok"
       /\ response.lead_id = loc.lead_id
       /\ response.erika_action = loc.action
       /\ \/ IsStripOf(response.ai_response, split.visible) /\ ~Blank(split.visible)
          \/ Blank(split.visible) /\ response.ai_response = DEFAULT_REPLY

\* C14 witness: the event {"data": {"message": {"text": "Hi"}, "lead":
\* {"id": 42}}}, answered by the assistant with "Hello" and an action that
\* has the summary note "greeted" only, ended with two notes on lead 42 and
\* the answer "ok", lead 42, "Hello"
C14_Witness ==
    /\ IsWebhook
    /\ pc = "done"
    /\ Decoded.val = MkDict(Field("data",
          MkDict(Field("message", MkDict(Field("text", Txt("Hi"))))
                 \o Field("lead", MkDict(Field("id", JInt(42)))))))
    /\ ai_full = <<"Hello">> \o Block(<<"sn:greeted">>)
    /\ calls = << Call("assistant", JInt(42), <<"Hi">>, TRUE),
                  Call("note", JInt(42), REPLY_LABEL \o <<"Hello">>, TRUE),
                  Call("note", JInt(42), SUMMARY_LABEL \o <<"greeted">>, TRUE) >>
    /\ response.status = "ok"
    /\ response.lead_id = JInt(42)
    /\ response.ai_response = <<"Hello">>

\* C15: in the reactivation flow the stage step does not depend on the
\* reactivation decision: with the CRM configured, for every lead whose
\* action suggests a stage that resolves, a stage update is requested on
\* that lead, whether should_reactivate is true or false.
C15_AsStated ==
    (IsCron /\ pc = "done" /\ KommoConfigured(cfg)) =>
        \A k \in DOMAIN response.details :
            ( /\ response.details[k].kind = "result"
              /\ StageResolves(response.details[k].suggested_stage) )
            => \E i \in DOMAIN calls :
                  /\ calls[i].op = "stage"
                  /\ calls[i].lead = response.details[k].lead_id

DeliveryCalls == SelectSeq(calls, LAMBDA c : IsDeliveryNote(c))

\* the parsed action is an object whose should_reactivate is truthy
WantsDelivery(action) ==
    action.t = "dict" /\ Truthy(PathGet(action, <<"should_reactivate">>))

\* the leads of the entries that report a decision to reactivate, in order
RECURSIVE ReactivatedLeads(_)
ReactivatedLeads(es) ==
    IF es = <<>> THEN <<>>
    ELSE (IF Head(es).should_reactivate THEN <<Head(es).lead_id>> ELSE <<>>)
         \o ReactivatedLeads(Tail(es))

\* C16: in the reactivation flow a lead gets an outbound delivery exactly
\* when the assistant answered and the parsed action is an object whose
\* should_reactivate is truthy (not when the block is missing, does not
\* parse, is not an object, or has should_reactivate false or absent).  With
\* the CRM configured, where a delivery is observable as a request: whatever
\* the assistant answers for the lead at hand, the requests of that lead
\* hold one delivery in the first case and none otherwise; the deliveries
\* made so far are those of the leads whose entry reports the decision, in
\* order; the live webhook flow never makes a delivery.
C16_DeliveryIffReactivate ==
    /\ IsWebhook => DeliveryCalls = <<>>
    /\ (IsCron /\ "detalhes" \in DOMAIN loc /\ KommoConfigured(cfg)) =>
          /\ Len(DeliveryCalls) = Len(ReactivatedLeads(loc.detalhes))
          /\ \A k \in DOMAIN DeliveryCalls :
                DeliveryCalls[k].lead = ReactivatedLeads(loc.detalhes)[k]
          /\ (pc = "lead" /\ loc.i <= Len(loc.leads)
                /\ Truthy(PathGet(loc.leads[loc.i], <<"id">>))) =>
                \A ans \in ErikaAnswers(cfg), okNote, okSend, okStage \in BOOLEAN :
                   LET r == ProcessLead(cfg, loc.leads[loc.i], ans, okNote, okSend, okStage)
                       sent == SelectSeq(r.calls, LAMBDA c : IsDeliveryNote(c))
                   IN  IF ans.ok /\ WantsDelivery(split_erika_output(ans.text).action)
                       THEN /\ Len(sent) = 1
                            /\ sent[1].lead = PathGet(loc.leads[loc.i], <<"id">>)
                            /\ r.entry.should_reactivate
                       ELSE /\ sent = <<>>
                            /\ ~r.entry.should_reactivate

\* C16 witness: a batch of two leads with the CRM configured has ended; the
\* first lead's action was not to reactivate and the second's was, and the
\* only delivery made is the one to the second lead
C16_Witness ==
    /\ IsCron
    /\ pc = "done"
    /\ KommoConfigured(cfg)
    /\ Len(response.details) = 2
    /\ response.details[1].kind = "result"
    /\ ~response.details[1].should_reactivate
    /\ response.details[2].should_reactivate
    /\ Len(DeliveryCalls) = 1
    /\ DeliveryCalls[1].lead = response.details[2].lead_id

\* the probed locations of the message text, in priority order
TextPathOrder ==
    << <<"message", "text">>, <<"message", "body">>, <<"message", "message">>,
       <<"conversation", "last_message", "text">>, <<"last_message", "text">>,
       <<"text">> >>

\* the first non-empty value at the probed locations of root, in priority
\* order; the empty text when there is none
FirstNonEmptyText(root) ==
    LET hits == {n \in DOMAIN TextPathOrder : Truthy(PathGet(root, TextPathOrder[n]))}
    IN  IF hits = {} THEN JStr(<<>>)
        ELSE PathGet(root, TextPathOrder[CHOOSE n \in hits : \A m \in hits : n <= m])

\* a field that is absent (or null) or an object
AbsentOrObject(root, key) ==
    PathGet(root, <<key>>) = None \/ IsDict(PathGet(root, <<key>>))

\* C17: the message text that kommo_webhook extracts from a decoded payload
\* is the first non-empty value among message.text, message.body,
\* message.message, conversation.last_message.text, last_message.text and
\* text, in that order, and the empty text when none is non-empty.  Stated
\* for payloads that are objects, pass the subdomain check and whose lead
\* and conversation fields are absent or objects (so that the lead id is
\* extracted without an error): the handler gets past extraction, calls the
\* assistant with that value, and ignores the event when it is blank.
C17_AsStated ==
    ( /\ IsWebhook
      /\ pc /= "request"
      /\ ~Decoded.exc
      /\ IsDict(Decoded.val)
      /\ IsDict(ProbedRoot(Decoded.val))
      /\ response.code /= 401
      /\ AbsentOrObject(ProbedRoot(Decoded.val), "lead")
      /\ AbsentOrObject(ProbedRoot(Decoded.val), "conversation") )
    => LET expected == FirstNonEmptyText(ProbedRoot(Decoded.val))
       IN  /\ pc /= "crash"
           /\ response /= Unhandled
           /\ "message_text" \in DOMAIN loc => loc.message_text = expected
           /\ (pc = "done" /\ response.status = "ignored")
                 => strip(PyStr(expected)) = <<>>
           /\ strip(PyStr(expected)) = <<>>
                 => (pc = "done" /\ response.status = "ignored")

IsCrmWrite(c) == c.op \in {"note", "stage"}

\* C18: in the live webhook flow every CRM write comes after an assistant
\* call that returned: each note or stage update in the requests is
\* preceded by the successful assistant call, and when the assistant call
\* failed it is the only request of the event, which is answered 500.
C18_WritesAfterAssistant ==
    IsWebhook =>
        /\ \A i \in DOMAIN calls :
              IsCrmWrite(calls[i]) =>
                 \E j \in 1..(i - 1) : calls[j].op = "assistant" /\ calls[j].ok
        /\ AssistantFailed =>
              /\ Len(calls) = 1
              /\ pc = "done"
              /\ response.code = 500

\* C18 witness: a live event with a lead id and the CRM configured, whose
\* assistant call failed, ended with 500 and no CRM write
C18_Witness ==
    /\ IsWebhook
    /\ pc = "done"
    /\ KommoConfigured(cfg)
    /\ AssistantFailed
    /\ Truthy(loc.lead_id)
    /\ response.code = 500
    /\ \A i \in DOMAIN calls : ~IsCrmWrite(calls[i])

\* C19: a live event without a lead id makes no CRM request of any kind,
\* whatever its action carries: the handler does not enter the note and
\* stage steps, no note and no stage update is among the requests, and once
\* the assistant has answered the event ends with 200 "ok" and the reply.
C19_NoLeadNoCrm ==
    (IsWebhook /\ "lead_id" \in DOMAIN loc /\ ~Truthy(loc.lead_id)) =>
        /\ pc \notin {"note_reply", "note_summary", "stage"}
        /\ \A i \in DOMAIN calls : ~IsCrmWrite(calls[i])
        /\ (AssistantSucceeded /\ pc = "done") =>
              /\ response.code = 200
              /\ response.status = "ok"
              /\ response.lead_id = loc.lead_id
              /\ response.ai_response = loc.reply_text
              /\ ~Blank(response.ai_response)

\* C19 witness: with the CRM configured, an event without a lead id whose
\* action carries a summary note and a stage that resolves was answered
\* "ok" with the reply, the assistant call being its only request
C19_Witness ==
    /\ IsWebhook
    /\ pc = "done"
    /\ KommoConfigured(cfg)
    /\ AssistantSucceeded
    /\ loc.lead_id = None
    /\ Truthy(SummaryOf(loc.action))
    /\ StageResolves(SuggestedStage(loc.action))
    /\ Len(calls) = 1
    /\ response.status = "ok"
    /\ response.ai_response = <<"Hello">>

\* the requests made for leads: everything but the listing
LeadCalls == SelectSeq(calls, LAMBDA c : c.op /= "list")

\* C20: in the reactivation batch the result list has one entry per fetched
\* lead with an id, in fetch order, each a normal result or an error entry;
\* a fetched lead without an id gets no assistant call, no CRM write and no
\* entry; the processed count of the answer is the number of its details.
\* At every point of the loop the entries are those of the leads with an id
\* among the leads handled so far, one assistant call was made for each of
\* them and none for any other lead, and every request for a lead names one
\* of them.
C20_OneEntryPerLead ==
    /\ (IsCron /\ "detalhes" \in DOMAIN loc) =>
          LET ids == LeadIds(SubSeq(loc.leads, 1, loc.i - 1))
          IN  /\ loc.i \in 1..(Len(loc.leads) + 1)
              /\ Len(loc.detalhes) = Len(ids)
              /\ Len(AssistantCalls) = Len(ids)
              /\ \A k \in DOMAIN ids :
                    /\ loc.detalhes[k].lead_id = ids[k]
                    /\ loc.detalhes[k].kind \in {"result", "error"}
                    /\ AssistantCalls[k].lead = ids[k]
              /\ \A i \in DOMAIN LeadCalls :
                    \E k \in DOMAIN ids : LeadCalls[i].lead = ids[k]
              /\ pc = "done" =>
                    /\ loc.i = Len(loc.leads) + 1
                    /\ response.details = loc.detalhes
    /\ (IsCron /\ pc = "done" /\ response.status = "ok") =>
          response.processed = Len(response.details)

\* C20 witness: a batch whose first fetched lead has no id and whose second
\* has one ended with a single entry, for the second lead, one assistant
\* call and a processed count of 1
C20_Witness ==
    /\ IsCron
    /\ pc = "done"
    /\ response.status = "ok"
    /\ Len(req.leads) = 2
    /\ ~Truthy(PathGet(req.leads[1], <<"id">>))
    /\ Truthy(PathGet(req.leads[2], <<"id">>))
    /\ Len(response.details) = 1
    /\ response.details[1].lead_id = PathGet(req.leads[2], <<"id">>)
    /\ Len(AssistantCalls) = 1
    /\ response.processed = 1

====
